---- MODULE Spec2Model ----
(***************************************************************************)
(* asksage-cli: dataset-name resolution (dataset_utils.py), the way the    *)
(* command handlers (commands/datasets.py, query.py, train.py, tokens.py)  *)
(* interpret the responses of the AskSage client, and the bundled mock     *)
(* client (mock_client.py).                                                *)
(*                                                                         *)
(* A Python str that is matched by a regular expression is a sequence of   *)
(* one-character strings; message texts are TLA+ strings.                  *)
(***************************************************************************)
EXTENDS Integers, Sequences, FiniteSets, TLC

VARIABLES
  op,         \* the operation that ran last
  name,       \* its dataset-name argument (dataset_name, args.name, args.dataset)
  listing,    \* what client.get_datasets() answers (or raises) during it
  assign,     \* what client.assign_dataset() answers (or raises) during it
  resp,       \* what the add / delete / query / train-file call answers
  files,      \* files_to_train of a directory training, in order
  resps,      \* what train_with_file answers for each of them, in order
              \* (for tokens: what the two count calls answer)
  result,     \* return value of resolve_dataset_name / extract_short_name
  exit,       \* process exit status of the handler (0 when it returns normally)
  report,     \* which message the handler ended with
  msg,        \* the error text inside that message, "" when none
  successful, \* counter of _train_directory
  failed,     \* counter of _train_directory
  calls,      \* the client calls the operation issued, in order
  datasets,   \* MockAskSageClient._datasets (when the client is the mock)
  shared      \* the list get_datasets returned last is the object _datasets

\* the inputs and outputs of a command handler
io == <<assign, resp, files, resps, exit, report, msg, successful, failed>>

\* the state of the mock client
mock == <<datasets, shared>>

vars == <<op, name, listing, result, calls, io, mock>>

(***************************************************************************)
(* Bounds of the model.                                                    *)
(***************************************************************************)
MaxListing == 2   \* longest dataset listing the client returns
MaxDatasets == 4  \* longest list the mock client is grown to

(***************************************************************************)
(* Python values.                                                          *)
(***************************************************************************)
\* Python's None where a text is expected (an 'error' of null).
None == "<None>"

\* Optional[str] of resolve_dataset_name: None as a name. No str equals it,
\* a str being a sequence of one-character strings.
NoneName == <<"<None>">>

NL == "\n"

\* bool(v) of a text or None.
Truthy(v) == v # None /\ v # ""

RECURSIVE Index(_, _, _)
\* position of the first element of s equal to x at or after i, 0 if none
Index(s, x, i) ==
  IF i > Len(s) THEN 0
  ELSE IF s[i] = x THEN i
  ELSE Index(s, x, i + 1)

\* x in s, for a list s
In(x, s) == Index(s, x, 1) # 0

RECURSIVE Filter(_, _, _)
\* [e for e in s if keep(e)] where keep is the set of elements kept
Filter(s, keep, i) ==
  IF i > Len(s) THEN <<>>
  ELSE (IF s[i] \in keep THEN <<s[i]>> ELSE <<>>) \o Filter(s, keep, i + 1)

(***************************************************************************)
(* Regular expressions: the subset of Python's re the two patterns use.    *)
(* A compiled pattern is a sequence of tokens.                             *)
(***************************************************************************)
Lit(c)  == [t |-> "lit", c |-> c]     \* one literal character
Digits  == [t |-> "d+",  c |-> ""]    \* \d+  (greedy)
AnyPlus == [t |-> ".+",  c |-> ""]    \* .+   (greedy; . is any character but newline)
Eol     == [t |-> "$",   c |-> ""]    \* $    (end, or just before a final newline)

IsDigit(c) == c \in {"0", "1", "2", "3", "4", "5", "6", "7", "8", "9"}

\* a literal piece of pattern text, character by character
Lits(s) == [i \in 1..Len(s) |-> Lit(s[i])]

\* re.escape(s): every character of s is to match itself
re_escape(s) == [i \in 1..Len(s) |-> Lit(s[i])]

\* does token tok accept character c (for the one-or-more tokens)
Accepts(tok, c) ==
  CASE tok.t = "d+" -> IsDigit(c)
    [] tok.t = ".+" -> c # NL
    [] OTHER -> FALSE

\* the characters s[i..i+n-1] exist and are all accepted by tok
Run(tok, s, i, n) ==
  /\ i + n - 1 <= Len(s)
  /\ \A j \in i..(i + n - 1) : Accepts(tok, s[j])

\* $ without re.MULTILINE: at the end of the string, or just before a
\* newline that is the last character
AtEol(s, i) == i = Len(s) + 1 \/ (i = Len(s) /\ s[i] = NL)

RECURSIVE MatchFrom(_, _, _, _)
\* pat[k..] matches s from position i on (a prefix of the rest: re.match
\* anchors at the start only)
MatchFrom(pat, k, s, i) ==
  IF k > Len(pat) THEN TRUE
  ELSE LET tok == pat[k] IN
    CASE tok.t = "lit" ->
           i <= Len(s) /\ s[i] = tok.c /\ MatchFrom(pat, k + 1, s, i + 1)
      [] tok.t = "$" ->
           AtEol(s, i) /\ MatchFrom(pat, k + 1, s, i)
      [] OTHER ->
           \E n \in 1..(Len(s) - i + 1) :
             Run(tok, s, i, n) /\ MatchFrom(pat, k + 1, s, i + n)

\* re.match(pattern, s) is not None
re_match(pat, s) == MatchFrom(pat, 1, s, 1)

\* the length a greedy one-or-more token pat[k] takes at i: the longest
\* run after which the rest of the pattern still matches
GreedyLen(pat, k, s, i) ==
  LET ok == {n \in 1..(Len(s) - i + 1) :
               Run(pat[k], s, i, n) /\ MatchFrom(pat, k + 1, s, i + n)}
  IN CHOOSE n \in ok : \A m \in ok : m <= n

RECURSIVE Capture(_, _, _, _, _)
\* the text token pat[g] matched, in the match the backtracking matcher
\* finds first (earlier greedy tokens take as much as they can); only
\* used when re_match(pat, s)
Capture(pat, k, s, i, g) ==
  LET tok == pat[k] IN
    CASE tok.t = "lit" -> Capture(pat, k + 1, s, i + 1, g)
      [] tok.t = "$" -> Capture(pat, k + 1, s, i, g)
      [] OTHER ->
           LET n == GreedyLen(pat, k, s, i) IN
             IF k = g THEN SubSeq(s, i, i + n - 1)
             ELSE Capture(pat, k + 1, s, i + n, g)

(***************************************************************************)
(* Dataset names.                                                          *)
(***************************************************************************)
PFX == <<"u", "s", "e", "r", "_", "c", "u", "s", "t", "o", "m", "_">>
SFX == <<"_", "c", "o", "n", "t", "e", "n", "t">>
USC == <<"_">>

\* f"user_custom_{n}_{alias}_content"
Full(n, alias) == PFX \o n \o USC \o alias \o SFX

(***************************************************************************)
(* Remote responses.  A response is a record:                              *)
(*   kind     "dict", "list", "str", "int", or "raise" (the call raised)   *)
(*   keys     the keys a dict has, among status/success/error/message/     *)
(*            response (the keys the handlers look at)                     *)
(*   status, success, error, message   the values under those keys         *)
(*   stype    the type of the value under 'status': "int", "none" (None)   *)
(*            or "str"; status is the value when it is an int              *)
(*   payload  the list under 'response', or the bare list itself           *)
(*   text     str() of a bare value, or of the exception raised (of a     *)
(*            non-empty list abridged to "[...]")                          *)
(* A field whose key is absent holds a fixed filler that nothing reads.    *)
(***************************************************************************)
Blank ==
  [kind |-> "dict", keys |-> {}, status |-> 0, stype |-> "int",
   success |-> FALSE, error |-> "", message |-> "", payload |-> <<>>,
   text |-> ""]

Raise(t)    == [Blank EXCEPT !.kind = "raise", !.text = t]
BareStr(t)  == [Blank EXCEPT !.kind = "str", !.text = t]
BareInt(t)  == [Blank EXCEPT !.kind = "int", !.text = t]
BareList(l) ==
  [Blank EXCEPT !.kind = "list", !.payload = l,
                !.text = IF l = <<>> THEN "[]" ELSE "[...]"]

\* a dict with exactly the keys ks
Dict(ks, st, su, er, me, pl) ==
  [kind |-> "dict", keys |-> ks,
   status  |-> IF "status" \in ks THEN st ELSE 0,
   stype   |-> "int",
   success |-> IF "success" \in ks THEN su ELSE FALSE,
   error   |-> IF "error" \in ks THEN er ELSE "",
   message |-> IF "message" \in ks THEN me ELSE "",
   payload |-> IF "response" \in ks THEN pl ELSE <<>>,
   text    |-> ""]

\* a dict with the keys ks and 'status', whose status is None or a str
DictStatus(ks, ty, su, er, me, pl) ==
  [Dict(ks \cup {"status"}, 0, su, er, me, pl) EXCEPT !.stype = ty]

\* no response: the call was not made
NoResp == [Blank EXCEPT !.kind = "none"]

\* a client call: the method, the dataset argument and the file it was given
Call(fn, arg) == [fn |-> fn, arg |-> arg, file |-> ""]
TrainCall(arg, f) == [fn |-> "train_with_file", arg |-> arg, file |-> f]

isinstance_dict(r) == r.kind = "dict"
isinstance_list(r) == r.kind = "list"

\* response.get('status', 200)
GetStatus(r) == IF "status" \in r.keys THEN r.status ELSE 200

\* 'status >= 400' with a status that is no number raises TypeError
StatusRaises(r) == "status" \in r.keys /\ r.stype # "int"

\* str() of that TypeError
TypeErrorText(r) ==
  IF r.stype = "none"
  THEN "'>=' not supported between instances of 'NoneType' and 'int'"
  ELSE "'>=' not supported between instances of 'str' and 'int'"

\* response.get('response', [])
GetResponseList(r) == IF "response" \in r.keys THEN r.payload ELSE <<>>

(***************************************************************************)
(* dataset_utils.py                                                        *)
(***************************************************************************)
\* rf"user_custom_\d+_{re.escape(dataset_name)}_content$"
ResolvePattern(dataset_name) ==
  Lits(PFX) \o <<Digits>> \o Lits(USC) \o re_escape(dataset_name)
    \o Lits(SFX) \o <<Eol>>

\* r"user_custom_\d+_(.+)_content$"; the group is token GroupAt
ExtractPattern ==
  Lits(PFX) \o <<Digits>> \o Lits(USC) \o <<AnyPlus>> \o Lits(SFX) \o <<Eol>>

GroupAt == Len(PFX) + Len(USC) + 2

\* lines 35-51: the search in a listing that was obtained
ResolveAliasFirst(all_datasets, dataset_name) ==
  LET pattern == ResolvePattern(dataset_name)
      keep == {all_datasets[i] : i \in
                 {j \in 1..Len(all_datasets) : re_match(pattern, all_datasets[j])}}
      matches == Filter(all_datasets, keep, 1)
  IN IF Len(matches) >= 1 THEN matches[1]
     ELSE IF In(dataset_name, all_datasets) THEN dataset_name
     ELSE NoneName

\* the variant without the exact-match test of lines 36-37
ResolvePatternOnly(all_datasets, dataset_name) ==
  LET pattern == ResolvePattern(dataset_name)
      keep == {all_datasets[i] : i \in
                 {j \in 1..Len(all_datasets) : re_match(pattern, all_datasets[j])}}
      matches == Filter(all_datasets, keep, 1)
  IN IF Len(matches) >= 1 THEN matches[1] ELSE NoneName

ResolveIn(all_datasets, dataset_name) ==
  IF In(dataset_name, all_datasets) THEN dataset_name
  ELSE
    LET pattern == ResolvePattern(dataset_name)
        keep == {all_datasets[i] : i \in
                   {j \in 1..Len(all_datasets) : re_match(pattern, all_datasets[j])}}
        matches == Filter(all_datasets, keep, 1)
    IN IF Len(matches) = 1 THEN matches[1]
       ELSE IF Len(matches) > 1 THEN matches[1]
       ELSE NoneName

\* resolve_dataset_name(client, dataset_name), given what get_datasets did
resolve_dataset_name(response, dataset_name) ==
  IF response.kind = "raise" THEN dataset_name
  ELSE IF isinstance_dict(response) THEN
    IF StatusRaises(response) THEN dataset_name
    ELSE IF GetStatus(response) >= 400 THEN NoneName
    ELSE ResolveIn(GetResponseList(response), dataset_name)
  ELSE IF isinstance_list(response) THEN
    ResolveIn(response.payload, dataset_name)
  ELSE NoneName

extract_first_content(full_dataset_name) ==
  LET s == full_dataset_name
      from == Len(PFX) + 3
      ends == {e \in from..Len(s) :
                 e + Len(SFX) <= Len(s) /\ SubSeq(s, e + 1, e + Len(SFX)) = SFX}
  IN IF re_match(ExtractPattern, s) /\ ends # {}
     THEN SubSeq(s, from, CHOOSE e \in ends : \A f \in ends : e <= f)
     ELSE s

\* extract_short_name(full_dataset_name)
extract_short_name(full_dataset_name) ==
  IF re_match(ExtractPattern, full_dataset_name)
  THEN Capture(ExtractPattern, 1, full_dataset_name, 1, GroupAt)
  ELSE full_dataset_name

(***************************************************************************)
(* Inputs: the names, listings and listing responses the model draws from. *)
(***************************************************************************)
Ids == {<<"1">>, <<"1", "2">>}

\* short names: plain, ending in _content, starting with a digit, with a
\* hyphen
Aliases == {<<"d">>, <<"d">> \o SFX, <<"1", "_", "d">>, <<"a", "-", "b">>}

FullNames == {Full(n, a) : n \in Ids, a \in Aliases}

F1d == Full(<<"1">>, <<"d">>)

\* other strings a listing may hold: a short name, a full name followed by
\* a newline or by text, preceded by text, without numeric id, with an
\* empty alias, without the suffix, with a regex metacharacter as alias
OddNames ==
  {<<"d">>, F1d \o <<NL>>, F1d \o <<"x">>, <<"x">> \o F1d,
   Full(<<>>, <<"d">>), Full(<<"1">>, <<>>), PFX \o <<"1">> \o USC \o <<"d">>,
   Full(<<"1">>, <<".">>)}

Listed == FullNames \cup OddNames

\* what the user may type
Candidates == Aliases \cup {<<".">>, <<>>, F1d}

Names == Listed \cup Candidates

Listings == UNION {[1..n -> Listed] : n \in 0..MaxListing}

ShortListings == {l \in Listings : Len(l) <= 1}

OkStatus   == {200, 399}
FailStatus == {400, 500}

\* what a 'status' that is no number may be: None, or a str like "500"
BadStatusTypes == {"none", "str"}

\* what get_datasets may answer
ListingResponses ==
  {BareList(l) : l \in Listings}
    \cup {Dict({"status", "response"}, 200, FALSE, "", "", l) : l \in Listings}
    \cup {Dict({"status", "response"}, 399, FALSE, "", "", l) : l \in ShortListings}
    \cup {Dict({"response"}, 0, FALSE, "", "", l) : l \in ShortListings}
    \cup {Dict({"status", "response"}, st, FALSE, "", "", l) :
            st \in FailStatus, l \in ShortListings}
    \cup {Dict({"status", "error"}, st, FALSE, "boom", "", <<>>) : st \in FailStatus}
    \cup {Dict({"status"}, 200, FALSE, "", "", <<>>), Dict({}, 0, FALSE, "", "", <<>>)}
    \cup {DictStatus({"response"}, ty, FALSE, "", "", l) :
            ty \in BadStatusTypes, l \in ShortListings}
    \cup {Raise("timeout"), BareStr("oops"), BareInt("7")}

(***************************************************************************)
(* The name functions applied to drawn inputs.                             *)
(***************************************************************************)
InitNames ==
  /\ op = "start"
  /\ name \in Names
  /\ listing \in ListingResponses
  /\ result = NoneName
  /\ calls = <<>>
  /\ assign = NoResp
  /\ resp = NoResp
  /\ files = <<>>
  /\ resps = <<>>
  /\ exit = 0
  /\ report = "none"
  /\ msg = ""
  /\ successful = 0
  /\ failed = 0
  /\ datasets = <<>>
  /\ shared = FALSE

\* resolve_dataset_name(client, name) with a client whose get_datasets
\* answers listing
Resolve ==
  /\ op = "start"
  /\ op' = "resolve"
  /\ result' = resolve_dataset_name(listing, name)
  /\ calls' = <<Call("get_datasets", <<>>)>>
  /\ UNCHANGED <<name, listing, io, mock>>

\* extract_short_name(name)
Extract ==
  /\ op = "start"
  /\ op' = "extract"
  /\ result' = extract_short_name(name)
  /\ listing' = NoResp
  /\ UNCHANGED <<name, calls, io, mock>>

\* resolve_dataset_name(client, result): the name a resolution returned is
\* resolved again, with the same client and an unchanged listing
ResolveAgain ==
  /\ op = "resolve"
  /\ result # NoneName
  /\ op' = "resolve_again"
  /\ result' = resolve_dataset_name(listing, result)
  /\ calls' = calls \o <<Call("get_datasets", <<>>)>>
  /\ UNCHANGED <<name, listing, io, mock>>

NextNames == Resolve \/ Extract \/ ResolveAgain

SpecNames == InitNames /\ [][NextNames]_vars

(***************************************************************************)
(* The command handlers.  A handler is an operator from its arguments and  *)
(* the client's answers to what it leaves behind: exit status, the kind of *)
(* message it ended with, the error text, the calls it made.  sys.exit     *)
(* raises SystemExit, which 'except Exception' does not catch.             *)
(***************************************************************************)
Letters ==
  {"a", "b", "c", "d", "e", "f", "g", "h", "i", "j", "k", "l", "m", "n",
   "o", "p", "q", "r", "s", "t", "u", "v", "w", "x", "y", "z"}

IsAlnum(c) == IsDigit(c) \/ c \in Letters

\* name.replace('-', '').replace('_', '').isalnum()
IsValidName(n) ==
  LET kept == {i \in 1..Len(n) : n[i] \notin {"-", "_"}}
  IN kept # {} /\ \A i \in kept : IsAlnum(n[i])

\* the variant that takes 'error' whenever the key is present
ErrorOrMessageIfPresent(r) ==
  IF "error" \in r.keys THEN r.error
  ELSE IF "message" \in r.keys THEN r.message
  ELSE "Unknown error"

\* response.get('error') or response.get('message', 'Unknown error')
ErrorOrMessage(r) ==
  IF "error" \in r.keys /\ Truthy(r.error) THEN r.error
  ELSE IF "message" \in r.keys THEN r.message
  ELSE "Unknown error"

\* response.get('error', 'Unknown error') if isinstance(response, dict)
\* else str(response)
TrainError(r) ==
  IF isinstance_dict(r)
  THEN (IF "error" \in r.keys THEN r.error ELSE "Unknown error")
  ELSE r.text

\* the variant that takes a response that is no mapping as a success
TrainSucceededUnlessDict(r) ==
  ~isinstance_dict(r) \/ ("success" \in r.keys /\ r.success)

\* isinstance(response, dict) and response.get('success')
TrainSucceeded(r) == isinstance_dict(r) /\ "success" \in r.keys /\ r.success

\* what a handler leaves behind
Out(e, rep, m, cs, res) ==
  [exit |-> e, report |-> rep, msg |-> m, calls |-> cs, result |-> res,
   successful |-> 0, failed |-> 0]

\* the status check shared by add, delete, list and the queries, on a
\* response that was returned; the TypeError of the comparison is caught
\* by the same except clause as an exception of the call
ByStatus(r, cs, res) ==
  IF isinstance_dict(r) /\ StatusRaises(r)
  THEN Out(1, "error", TypeErrorText(r), cs, res)
  ELSE IF isinstance_dict(r) /\ GetStatus(r) >= 400
  THEN Out(1, "failed", ErrorOrMessage(r), cs, res)
  ELSE Out(0, "success", "", cs, res)

\* datasets.execute with 'add': _add_dataset, and the handler of execute
\* for a call that raises
add_dataset(n, r) ==
  IF ~IsValidName(n) THEN Out(1, "invalid", "", <<>>, NoneName)
  ELSE LET cs == <<Call("add_dataset", n)>> IN
    IF r.kind = "raise" THEN Out(1, "error", r.text, cs, NoneName)
    ELSE ByStatus(r, cs, NoneName)

\* the variant that goes on to the delete call with whatever was resolved
delete_dataset_unchecked(n, l, r) ==
  LET full_name == resolve_dataset_name(l, n)
      cs == <<Call("get_datasets", <<>>), Call("delete_dataset", full_name)>>
  IN IF r.kind = "raise" THEN Out(1, "error", r.text, cs, full_name)
     ELSE ByStatus(r, cs, full_name)

\* datasets.execute with 'delete': _delete_dataset
delete_dataset(n, l, r) ==
  LET full_name == resolve_dataset_name(l, n)
      c1 == <<Call("get_datasets", <<>>)>>
      cs == c1 \o <<Call("delete_dataset", full_name)>>
  IN IF full_name = NoneName THEN Out(1, "not_found", "", c1, full_name)
     ELSE IF r.kind = "raise" THEN Out(1, "error", r.text, cs, full_name)
     ELSE ByStatus(r, cs, full_name)

\* datasets.execute with 'list': _list_datasets
list_datasets(l) ==
  LET cs == <<Call("get_datasets", <<>>)>> IN
    IF l.kind = "raise" THEN Out(1, "error", l.text, cs, NoneName)
    ELSE IF isinstance_dict(l) THEN ByStatus(l, cs, NoneName)
    ELSE IF isinstance_list(l) THEN Out(0, "success", "", cs, NoneName)
    ELSE Out(1, "unexpected", l.text, cs, NoneName)

\* the variant whose assign_dataset call is outside every try block: an
\* exception of it leaves the process with a traceback
query_assign_unguarded(fn, n, l, a, r) ==
  LET full == IF n # <<>> THEN resolve_dataset_name(l, n) ELSE NoneName
      c1 == IF n # <<>> THEN <<Call("get_datasets", <<>>)>> ELSE <<>>
      c2 == IF n # <<>> THEN c1 \o <<Call("assign_dataset", full)>> ELSE <<>>
      cs == c2 \o <<Call(fn, <<>>)>>
  IN IF n # <<>> /\ full = NoneName THEN Out(1, "not_found", "", c1, full)
     ELSE IF n # <<>> /\ a.kind = "raise" THEN Out(1, "traceback", a.text, c2, full)
     ELSE IF r.kind = "raise" THEN Out(1, "error", r.text, cs, full)
     ELSE ByStatus(r, cs, full)

\* the variant that assigns the name as typed
query_assign_alias(fn, n, l, a, r) ==
  LET full == IF n # <<>> THEN resolve_dataset_name(l, n) ELSE NoneName
      c1 == IF n # <<>> THEN <<Call("get_datasets", <<>>)>> ELSE <<>>
      c2 == IF n # <<>> THEN c1 \o <<Call("assign_dataset", n)>> ELSE <<>>
      cs == c2 \o <<Call(fn, <<>>)>>
  IN IF n # <<>> /\ full = NoneName THEN Out(1, "not_found", "", c1, full)
     ELSE IF n # <<>> /\ a.kind = "raise" THEN Out(1, "error", a.text, c2, full)
     ELSE IF r.kind = "raise" THEN Out(1, "error", r.text, cs, full)
     ELSE ByStatus(r, cs, full)

\* _query_basic, _query_with_file, _query_with_plugin after the file
\* checks: fn is the client method the variant calls; n is args.dataset,
\* the empty string when the option is not given
query(fn, n, l, a, r) ==
  LET full == IF n # <<>> THEN resolve_dataset_name(l, n) ELSE NoneName
      c1 == IF n # <<>> THEN <<Call("get_datasets", <<>>)>> ELSE <<>>
      c2 == IF n # <<>> THEN c1 \o <<Call("assign_dataset", full)>> ELSE <<>>
      cs == c2 \o <<Call(fn, <<>>)>>
  IN IF n # <<>> /\ full = NoneName THEN Out(1, "not_found", "", c1, full)
     ELSE IF n # <<>> /\ a.kind = "raise" THEN Out(1, "error", a.text, c2, full)
     ELSE IF r.kind = "raise" THEN Out(1, "error", r.text, cs, full)
     ELSE ByStatus(r, cs, full)

\* _query_with_file: the two file checks come first
query_with_file(exists, is_file, n, l, a, r) ==
  IF ~exists \/ ~is_file THEN Out(1, "invalid", "", <<>>, NoneName)
  ELSE query("query_with_file", n, l, a, r)

\* train.execute with 'file': _train_file
train_file(exists, is_file, n, l, r) ==
  IF ~exists \/ ~is_file THEN Out(1, "invalid", "", <<>>, NoneName)
  ELSE
    LET dataset_name == resolve_dataset_name(l, n)
        c1 == <<Call("get_datasets", <<>>)>>
        cs == c1 \o <<TrainCall(dataset_name, "path")>>
    IN IF dataset_name = NoneName THEN Out(1, "not_found", "", c1, dataset_name)
       ELSE IF r.kind = "raise" THEN Out(1, "error", r.text, cs, dataset_name)
       ELSE IF TrainSucceeded(r) THEN Out(0, "success", "", cs, dataset_name)
       ELSE Out(1, "failed", TrainError(r), cs, dataset_name)

\* str.lower() on the characters extensions and suffixes are made of
LowerChar(c) ==
  CASE c = "M" -> "m" [] c = "D" -> "d" [] c = "T" -> "t" [] c = "X" -> "x"
    [] OTHER -> c

Lower(x) == [i \in 1..Len(x) |-> LowerChar(x[i])]

\* lines 162-168 of _collect_files: one extension, normalised
NormalizeExt(ext) ==
  LET e == Lower(ext)
  IN IF Len(e) >= 1 /\ e[1] = "." THEN e ELSE <<".">> \o e

\* the entries of s in increasing path order (sorted(files)); path is the
\* rank of the entry's path among all paths
RECURSIVE Sorted(_)
Sorted(s) ==
  IF s = {} THEN <<>>
  ELSE LET m == CHOOSE e \in s : \A f \in s : e.path <= f.path
       IN <<m>> \o Sorted(s \ {m})

\* _collect_files(directory, extensions, recursive): entries are the
\* directory's tree, depth 1 for its direct children
collect_files(entries, extensions, recursive) ==
  LET normalized == {NormalizeExt(extensions[i]) : i \in 1..Len(extensions)}
      globbed == {e \in entries : recursive \/ e.depth = 1}
  IN Sorted({e \in globbed : e.is_file /\ Lower(e.suffix) \in normalized})

RECURSIVE TrainAll(_, _, _, _, _)
\* the loop of _train_directory from file i on: one train_with_file call
\* per file, each adding one to successful or to failed
TrainAll(fs, rs, dataset_name, i, acc) ==
  IF i > Len(fs) THEN acc
  ELSE
    LET ok == rs[i].kind # "raise" /\ TrainSucceeded(rs[i])
        m == IF ok THEN acc.msg
             ELSE IF rs[i].kind = "raise" THEN rs[i].text
             ELSE TrainError(rs[i])
    IN TrainAll(fs, rs, dataset_name, i + 1,
         [acc EXCEPT !.calls = @ \o <<TrainCall(dataset_name, fs[i].file)>>,
                     !.successful = IF ok THEN @ + 1 ELSE @,
                     !.failed = IF ok THEN @ ELSE @ + 1,
                     !.msg = m])

\* train.execute with 'directory': _train_directory; rs[i] is what
\* train_with_file answers for the i-th collected file
train_directory(exists, is_dir, n, l, fs, rs) ==
  IF ~exists \/ ~is_dir THEN Out(1, "invalid", "", <<>>, NoneName)
  ELSE
    LET dataset_name == resolve_dataset_name(l, n)
        c1 == <<Call("get_datasets", <<>>)>>
    IN IF dataset_name = NoneName THEN Out(1, "not_found", "", c1, dataset_name)
       ELSE IF fs = <<>> THEN Out(0, "no_files", "", c1, dataset_name)
       ELSE LET done == TrainAll(fs, rs, dataset_name, 1,
                                 Out(0, "summary", "", c1, dataset_name))
            IN [done EXCEPT !.exit = IF done.failed > 0 THEN 1 ELSE 0]

\* extract_token_count(response) of _show_token_usage: what it raises,
\* "" when it returns a count: the TypeError of the comparison, or the
\* 'API error: <text>' exception for a status >= 400
extract_token_count(response) ==
  IF isinstance_dict(response) /\ StatusRaises(response)
  THEN [raises |-> "TypeError", text |-> TypeErrorText(response)]
  ELSE IF isinstance_dict(response) /\ GetStatus(response) >= 400
  THEN [raises |-> "API error", text |-> ErrorOrMessage(response)]
  ELSE [raises |-> "", text |-> ""]

\* tokens.execute: _show_token_usage; m and t are what
\* count_monthly_tokens and count_monthly_teach_tokens answer, and the
\* counts printed are numbers. Every exception ends in the except clause
\* of line 62; the report is "failed" for an 'API error' and "error" for
\* any other exception.
show_token_usage(m, t) ==
  LET c1 == <<Call("count_monthly_tokens", <<>>)>>
      cs == c1 \o <<Call("count_monthly_teach_tokens", <<>>)>>
      em == extract_token_count(m)
      et == extract_token_count(t)
      first == IF em.raises # "" THEN em ELSE et
  IN IF m.kind = "raise" THEN Out(1, "error", m.text, c1, NoneName)
     ELSE IF t.kind = "raise" THEN Out(1, "error", t.text, cs, NoneName)
     ELSE IF first.raises = "TypeError" THEN Out(1, "error", first.text, cs, NoneName)
     ELSE IF first.raises = "API error" THEN Out(1, "failed", first.text, cs, NoneName)
     ELSE Out(0, "success", "", cs, NoneName)

\* MockAskSageClient.count_monthly_tokens, count_monthly_teach_tokens
mock_count_tokens == Dict({"status", "response"}, 200, FALSE, "", "", <<>>)

\* MockAskSageClient.train_with_file: what the bundled mock client answers
mock_train_with_file(exists) ==
  IF ~exists
  THEN Dict({"status", "error"}, 404, FALSE, "File not found", "", <<>>)
  ELSE Dict({"status", "response"}, 200, FALSE, "", "", <<>>)

(***************************************************************************)
(* Inputs of the command handlers.                                         *)
(***************************************************************************)
StatusVals  == OkStatus \cup FailStatus
ErrorVals   == {"boom", "", None}
MessageVals == {"msg"}

\* what add_dataset, delete_dataset and the query calls may answer: every
\* mapping over the keys the handlers read, a bare value, or an exception
MutationResponses ==
  {Dict(ks, st, su, er, me, <<>>) :
     ks \in SUBSET {"status", "success", "error", "message"},
     st \in StatusVals, su \in BOOLEAN, er \in ErrorVals, me \in MessageVals}
    \cup {DictStatus(ks, ty, su, er, me, <<>>) :
            ks \in SUBSET {"success", "error", "message"},
            ty \in BadStatusTypes, su \in BOOLEAN, er \in ErrorVals,
            me \in MessageVals}
    \cup {Raise("timeout"), BareStr("oops"), BareInt("7"), BareList(<<>>)}

\* what the two token-count calls may answer
TokenResponses ==
  {Dict(ks, st, FALSE, er, "msg", <<>>) :
     ks \in SUBSET {"status", "error", "message", "response"},
     st \in {200, 400}, er \in {"boom", ""}}
    \cup {DictStatus(ks, ty, FALSE, "boom", "", <<>>) :
            ks \in SUBSET {"error", "response"}, ty \in BadStatusTypes}
    \cup {mock_count_tokens, Raise("timeout"), BareStr("oops"), BareInt("7")}

TrainResponses ==
  MutationResponses \cup {mock_train_with_file(e) : e \in BOOLEAN}

AssignResponses ==
  {Dict({"status"}, 200, FALSE, "", "", <<>>),
   Dict({"status", "error"}, 500, FALSE, "boom", "", <<>>),
   Raise("timeout")}

TrainDirResponses ==
  {Dict({"success"}, 0, TRUE, "", "", <<>>),
   Dict({"success", "error"}, 0, FALSE, "boom", "", <<>>),
   mock_train_with_file(TRUE), BareStr("oops"), Raise("timeout")}

\* names given to add
AddNames == Aliases \cup {<<".">>, <<>>, <<"-">>}

\* names given to the handlers that resolve, and the listings they meet
HandlerNames == {<<"d">>, <<"1", "_", "d">>, F1d}

HandlerListings ==
  {BareList(<<>>), BareList(<<F1d>>),
   Dict({"status", "response"}, 200, FALSE, "", "", <<F1d>>),
   Dict({"status", "error"}, 500, FALSE, "boom", "", <<>>),
   Dict({"status", "message"}, 400, FALSE, "", "msg", <<>>),
   DictStatus({"response"}, "none", FALSE, "", "", <<F1d>>),
   DictStatus({"error"}, "str", FALSE, "boom", "", <<>>),
   Raise("timeout"), BareStr("oops"), BareInt("7")}

\* the entries a trained directory may hold
Entry(p, f, d, isf, sfx) ==
  [path |-> p, file |-> f, depth |-> d, is_file |-> isf, suffix |-> sfx]

EntA == Entry(1, "a.txt", 1, TRUE, <<".", "t", "x", "t">>)
EntB == Entry(2, "b.MD", 1, TRUE, <<".", "M", "D">>)
EntC == Entry(3, "c.bin", 1, TRUE, <<".", "b", "i", "n">>)
EntS == Entry(4, "sub", 1, FALSE, <<>>)
EntD == Entry(5, "sub/d.py", 2, TRUE, <<".", "p", "y">>)

Directories ==
  {{}, {EntA}, {EntC, EntS}, {EntA, EntB, EntC}, {EntA, EntB, EntC, EntS, EntD}}

\* the default of --extensions, and two given by the user
DefaultExtensions ==
  << <<".", "t", "x", "t">>, <<".", "m", "d">>, <<".", "p", "y">>,
     <<".", "j", "s">>, <<".", "j", "s", "o", "n">> >>

ExtensionLists == {DefaultExtensions, << <<"T", "X", "T">> >>, <<>>}

(***************************************************************************)
(* The commands as actions: one invocation of the CLI each.                *)
(***************************************************************************)
Init ==
  /\ op = "start"
  /\ name = <<>>
  /\ listing = NoResp
  /\ result = NoneName
  /\ calls = <<>>
  /\ assign = NoResp
  /\ resp = NoResp
  /\ files = <<>>
  /\ resps = <<>>
  /\ exit = 0
  /\ report = "none"
  /\ msg = ""
  /\ successful = 0
  /\ failed = 0
  /\ datasets = <<>>
  /\ shared = FALSE

\* the handler made a call of client method fn
Made(out, fn) == \E i \in 1..Len(out.calls) : out.calls[i].fn = fn

\* the state an invocation leaves: its arguments, the answers of the calls
\* it made, and what the handler left behind; a process runs one command
Leaves(o, n, l, a, r, fn, out) ==
  /\ op' = o
  /\ name' = n
  /\ listing' = IF Made(out, "get_datasets") THEN l ELSE NoResp
  /\ assign' = IF Made(out, "assign_dataset") THEN a ELSE NoResp
  /\ resp' = IF Made(out, fn) THEN r ELSE NoResp
  /\ result' = out.result
  /\ exit' = out.exit
  /\ report' = out.report
  /\ msg' = out.msg
  /\ calls' = out.calls
  /\ successful' = out.successful
  /\ failed' = out.failed

AddDataset ==
  /\ op = "start"
  /\ \E n \in AddNames, r \in MutationResponses :
      /\ Leaves("add", n, NoResp, NoResp, r, "add_dataset", add_dataset(n, r))
      /\ UNCHANGED <<files, resps, mock>>

DeleteDataset ==
  /\ op = "start"
  /\ \E n \in HandlerNames, l \in HandlerListings, r \in MutationResponses :
      /\ Leaves("delete", n, l, NoResp, r, "delete_dataset", delete_dataset(n, l, r))
      /\ UNCHANGED <<files, resps, mock>>

ListDatasets ==
  /\ op = "start"
  /\ \E l \in ListingResponses :
      /\ Leaves("list", <<>>, l, NoResp, NoResp, "none", list_datasets(l))
      /\ UNCHANGED <<files, resps, mock>>

QueryBasic ==
  /\ op = "start"
  /\ \E n \in HandlerNames \cup {<<>>}, l \in HandlerListings,
       a \in AssignResponses, r \in MutationResponses :
      /\ Leaves("query", n, l, a, r, "query", query("query", n, l, a, r))
      /\ UNCHANGED <<files, resps, mock>>

QueryWithFile ==
  /\ op = "start"
  /\ \E exists \in BOOLEAN, is_file \in BOOLEAN, n \in HandlerNames \cup {<<>>},
       l \in HandlerListings, a \in AssignResponses, r \in MutationResponses :
      /\ exists \/ ~is_file
      /\ Leaves("query_with_file", n, l, a, r, "query_with_file",
                query_with_file(exists, is_file, n, l, a, r))
      /\ UNCHANGED <<files, resps, mock>>

QueryWithPlugin ==
  /\ op = "start"
  /\ \E n \in HandlerNames \cup {<<>>}, l \in HandlerListings,
       a \in AssignResponses, r \in MutationResponses :
      /\ Leaves("query_plugin", n, l, a, r, "query_plugin",
                query("query_plugin", n, l, a, r))
      /\ UNCHANGED <<files, resps, mock>>

TrainFile ==
  /\ op = "start"
  /\ \E exists \in BOOLEAN, is_file \in BOOLEAN, n \in HandlerNames,
       l \in HandlerListings, r \in TrainResponses :
      /\ exists \/ ~is_file
      /\ Leaves("train_file", n, l, NoResp, r, "train_with_file",
                train_file(exists, is_file, n, l, r))
      /\ UNCHANGED <<files, resps, mock>>

TrainDirectory ==
  /\ op = "start"
  /\ \E exists \in BOOLEAN, is_dir \in BOOLEAN, n \in HandlerNames,
       l \in HandlerListings, entries \in Directories,
       extensions \in ExtensionLists, recursive \in BOOLEAN :
      LET fs == collect_files(entries, extensions, recursive) IN
      \E rs \in [1..Len(fs) -> TrainDirResponses] :
        LET out == train_directory(exists, is_dir, n, l, fs, rs)
            ran == out.report \in {"no_files", "summary"}
        IN /\ exists \/ ~is_dir
           /\ Leaves("train_directory", n, l, NoResp, NoResp, "none", out)
           /\ files' = IF ran THEN fs ELSE <<>>
           /\ resps' = IF ran THEN rs ELSE <<>>
           /\ UNCHANGED mock

Tokens ==
  /\ op = "start"
  /\ \E m \in TokenResponses, t \in TokenResponses :
      LET out == show_token_usage(m, t) IN
        /\ Leaves("tokens", <<>>, NoResp, NoResp, NoResp, "none", out)
        /\ files' = <<>>
        /\ resps' = IF Made(out, "count_monthly_teach_tokens") THEN <<m, t>> ELSE <<m>>
        /\ UNCHANGED mock

Next ==
  \/ Tokens
  \/ AddDataset
  \/ DeleteDataset
  \/ ListDatasets
  \/ QueryBasic
  \/ QueryWithFile
  \/ QueryWithPlugin
  \/ TrainFile
  \/ TrainDirectory

Spec == Init /\ [][Next]_vars

(***************************************************************************)
(* The bundled mock client (mock_client.py) and the commands run against   *)
(* one instance of it.                                                     *)
(***************************************************************************)
user_id == 145128821

DigitChars == <<"0", "1", "2", "3", "4", "5", "6", "7", "8", "9">>

RECURSIVE StrNat(_)
\* str(n) of a natural number: its decimal digits
StrNat(n) ==
  IF n < 10 THEN <<DigitChars[n + 1]>>
  ELSE StrNat(n \div 10) \o <<DigitChars[(n % 10) + 1]>>

\* f"user_custom_{self._user_id}_{dataset}_content"
MockFull(dataset) == Full(StrNat(user_id), dataset)

example   == <<"e", "x", "a", "m", "p", "l", "e">>
test_data == <<"t", "e", "s", "t", "-", "d", "a", "t", "a">>
docs      == <<"d", "o", "c", "s">>

\* self._datasets after __init__
InitialDatasets == <<MockFull(example), MockFull(test_data), MockFull(docs)>>

\* list.remove(x) for an x that is in s: the first occurrence goes
Remove(s, x) ==
  LET i == Index(s, x, 1)
  IN SubSeq(s, 1, i - 1) \o SubSeq(s, i + 1, Len(s))

\* the variant of add_dataset without the membership test
mock_add_dataset_unchecked(ds, dataset) ==
  [datasets |-> Append(ds, MockFull(dataset)),
   response |-> Dict({"status", "response"}, 200, FALSE, "", "", <<>>)]

\* MockAskSageClient.add_dataset(dataset) with _datasets = ds: the new
\* _datasets and the response
mock_add_dataset(ds, dataset) ==
  LET full_name == MockFull(dataset)
  IN IF ~In(full_name, ds)
     THEN [datasets |-> Append(ds, full_name),
           response |-> Dict({"status", "response"}, 200, FALSE, "", "", <<>>)]
     ELSE [datasets |-> ds,
           response |-> Dict({"status", "error"}, 400, FALSE,
                             "Dataset already exists", "", <<>>)]

\* the variant of delete_dataset that takes the short name
mock_delete_dataset_by_alias(ds, dataset) ==
  IF In(MockFull(dataset), ds)
  THEN [datasets |-> Remove(ds, MockFull(dataset)),
        response |-> Dict({"status", "response"}, 200, FALSE, "", "", <<>>)]
  ELSE [datasets |-> ds,
        response |-> Dict({"status", "error"}, 404, FALSE,
                          "Dataset not found", "", <<>>)]

\* MockAskSageClient.delete_dataset(dataset)
mock_delete_dataset(ds, dataset) ==
  IF In(dataset, ds)
  THEN [datasets |-> Remove(ds, dataset),
        response |-> Dict({"status", "response"}, 200, FALSE, "", "", <<>>)]
  ELSE [datasets |-> ds,
        response |-> Dict({"status", "error"}, 404, FALSE,
                          "Dataset not found", "", <<>>)]

\* MockAskSageClient.get_datasets(): the response, and whether the list in
\* it is the object _datasets (it is self._datasets.copy())
mock_get_datasets(ds) ==
  [response |-> Dict({"status", "response"}, 200, FALSE, "", "", ds),
   shared |-> FALSE]

\* short names given to the mock: the three it starts with, and a new one
\* that ends in _content
MockAliases == {example, test_data, docs, docs \o SFX}

\* names given to delete and to the resolver: the short names, a full
\* name, and that name under another user id
MockNames == MockAliases \cup {MockFull(docs), Full(<<"1">>, docs)}

\* what a caller may do to the list it was returned
Mutations(l) ==
  {<<>>, Append(l, <<"x">>)} \cup (IF l = <<>> THEN {} ELSE {Tail(l)})

InitMock ==
  /\ op = "start"
  /\ name = <<>>
  /\ listing = NoResp
  /\ result = NoneName
  /\ calls = <<>>
  /\ assign = NoResp
  /\ resp = NoResp
  /\ files = <<>>
  /\ resps = <<>>
  /\ exit = 0
  /\ report = "none"
  /\ msg = ""
  /\ successful = 0
  /\ failed = 0
  /\ datasets = InitialDatasets
  /\ shared = FALSE

\* what one operation on the client instance leaves
MockLeaves(o, n, l, r, out) ==
  /\ op' = o
  /\ name' = n
  /\ listing' = l
  /\ resp' = r
  /\ result' = out.result
  /\ exit' = out.exit
  /\ report' = out.report
  /\ msg' = out.msg
  /\ calls' = out.calls
  /\ assign' = NoResp
  /\ files' = <<>>
  /\ resps' = <<>>
  /\ successful' = 0
  /\ failed' = 0

\* client.add_dataset(n), called directly
ClientAdd ==
  /\ Len(datasets) < MaxDatasets
  /\ \E n \in MockAliases :
      LET m == mock_add_dataset(datasets, n) IN
        /\ MockLeaves("client_add", n, NoResp, m.response,
                      Out(0, "none", "", <<Call("add_dataset", n)>>, NoneName))
        /\ datasets' = m.datasets
        /\ shared' = FALSE

\* client.delete_dataset(n), called directly
ClientDelete ==
  \E n \in MockNames :
    LET m == mock_delete_dataset(datasets, n) IN
      /\ MockLeaves("client_delete", n, NoResp, m.response,
                    Out(0, "none", "", <<Call("delete_dataset", n)>>, NoneName))
      /\ datasets' = m.datasets
      /\ shared' = FALSE

\* client.get_datasets(), called directly: the caller keeps the response
ClientGetDatasets ==
  LET g == mock_get_datasets(datasets) IN
    /\ MockLeaves("get_datasets", <<>>, g.response, NoResp,
                  Out(0, "none", "", <<Call("get_datasets", <<>>)>>, NoneName))
    /\ datasets' = datasets
    /\ shared' = g.shared

\* the caller changes the list it was returned
MutateReturned ==
  /\ op = "get_datasets"
  /\ \E l \in Mutations(listing.payload) :
      /\ MockLeaves("mutate", <<>>, [listing EXCEPT !.payload = l], NoResp,
                    Out(0, "none", "", <<>>, NoneName))
      /\ datasets' = IF shared THEN l ELSE datasets
      /\ shared' = shared

\* resolve_dataset_name(client, n) with the mock as client
MockResolve ==
  \E n \in MockNames :
    LET g == mock_get_datasets(datasets) IN
      /\ MockLeaves("resolve", n, g.response, NoResp,
                    Out(0, "none", "", <<Call("get_datasets", <<>>)>>,
                        resolve_dataset_name(g.response, n)))
      /\ datasets' = datasets
      /\ shared' = FALSE

\* datasets add n, run with the mock as client
MockAddDataset ==
  /\ Len(datasets) < MaxDatasets
  /\ \E n \in MockAliases \cup {<<".">>} :
      LET m == mock_add_dataset(datasets, n)
          out == add_dataset(n, m.response)
          called == Made(out, "add_dataset")
      IN /\ MockLeaves("add", n, NoResp, IF called THEN m.response ELSE NoResp, out)
         /\ datasets' = IF called THEN m.datasets ELSE datasets
         /\ shared' = FALSE

\* datasets delete n, run with the mock as client
MockDeleteDataset ==
  \E n \in MockNames :
    LET g == mock_get_datasets(datasets)
        full_name == resolve_dataset_name(g.response, n)
        m == mock_delete_dataset(datasets, full_name)
        out == delete_dataset(n, g.response, m.response)
        called == Made(out, "delete_dataset")
    IN /\ MockLeaves("delete", n, g.response, IF called THEN m.response ELSE NoResp, out)
       /\ datasets' = IF called THEN m.datasets ELSE datasets
       /\ shared' = FALSE

NextMock ==
  \/ ClientAdd
  \/ ClientDelete
  \/ ClientGetDatasets
  \/ MutateReturned
  \/ MockResolve
  \/ MockAddDataset
  \/ MockDeleteDataset

SpecMock == InitMock /\ [][NextMock]_vars

(***************************************************************************)
(* Properties of the name functions (checked under SpecNames).             *)
(***************************************************************************)
AllDigits(s) == \A i \in 1..Len(s) : IsDigit(s[i])

\* x is user_custom_<digits>_<c>_content, character for character
IsFullOf(x, c) ==
  \E k \in 1..(Len(x) - Len(PFX)) :
    LET n == SubSeq(x, Len(PFX) + 1, Len(PFX) + k)
    IN AllDigits(n) /\ x = Full(n, c)

\* the non-empty aliases a for which x is user_custom_<digits>_<a>_content
AliasesOf(x) ==
  {a \in {SubSeq(x, i, Len(x) - Len(SFX)) : i \in 1..(Len(x) - Len(SFX))} :
     IsFullOf(x, a)}

\* a listing that was obtained: a bare list, or a mapping with a status
\* below 400 and the list under 'response'
SuccessfulListing(r) ==
  \/ r.kind = "list"
  \/ /\ r.kind = "dict" /\ "status" \in r.keys /\ r.stype = "int"
     /\ r.status < 400 /\ "response" \in r.keys

\* a listing call that failed: it raised, or answered a status >= 400
FailedListing(r) ==
  \/ r.kind = "raise"
  \/ r.kind = "dict" /\ "status" \in r.keys /\ r.stype = "int" /\ r.status >= 400

Elems(l) == {l[i] : i \in 1..Len(l)}

\* C1: a candidate that is an element of a successfully obtained listing
\* resolves to itself, also when another element of the listing is
\* user_custom_<digits>_<candidate>_content.
C1_ExactMatchFirst ==
  (op = "resolve" /\ SuccessfulListing(listing) /\ name \in Elems(listing.payload))
    => result = name

C1_Witness ==
  /\ op = "resolve"
  /\ SuccessfulListing(listing)
  /\ Len(listing.payload) = 2
  /\ IsFullOf(listing.payload[1], name)
  /\ listing.payload[2] = name
  /\ result = name

\* C2: a candidate c that is not listed resolves to the first element of
\* the listing that equals user_custom_<digits>_<c>_content when there is
\* one, and never to an element that is not of exactly that form.
C2_FirstExactAlias ==
  (op = "resolve" /\ SuccessfulListing(listing) /\ name \notin Elems(listing.payload))
    => LET l == listing.payload
           exact == {i \in 1..Len(l) : IsFullOf(l[i], name)}
       IN /\ exact # {} => result = l[CHOOSE i \in exact : \A j \in exact : i <= j]
          /\ result # NoneName => IsFullOf(result, name)

\* C3: when the listing call raises or answers a status >= 400, the
\* candidate is returned unchanged.
C3_FailedListingKeepsCandidate ==
  (op = "resolve" /\ FailedListing(listing)) => result = name

\* C4: a candidate that is neither listed nor the alias of a listed
\* element resolves to None.
C4_NotFoundIsNone ==
  (/\ op = "resolve"
   /\ SuccessfulListing(listing)
   /\ name \notin Elems(listing.payload)
   /\ \A x \in Elems(listing.payload) : ~IsFullOf(x, name))
    => result = NoneName

\* C5: round trip: for full = user_custom_<n>_<a>_content with a non-empty
\* alias a, extract_short_name(full) is a, and resolving a against the
\* listing [full] gives full.
C5_RoundTrip ==
  \A n \in Ids, a \in Aliases :
    /\ (op = "extract" /\ name = Full(n, a)) => result = a
    /\ (op = "resolve" /\ listing = BareList(<<Full(n, a)>>) /\ name = a)
         => result = Full(n, a)

C5_Witness ==
  /\ op = "extract"
  /\ name = Full(<<"1", "2">>, <<"d">> \o SFX)
  /\ result = <<"d">> \o SFX

\* C6: extract_short_name returns a string that is not of the form
\* user_custom_<digits>_<non-empty alias>_content unchanged, and of a
\* string of that form only the alias.
C6_ExtractTotal ==
  op = "extract"
    => IF AliasesOf(name) = {} THEN result = name ELSE result \in AliasesOf(name)

(***************************************************************************)
(* Properties of the command handlers (checked under Spec).                *)
(***************************************************************************)
StatusOps == {"add", "delete", "list", "query", "query_with_file", "query_plugin"}

ResolvingOps ==
  {"delete", "query", "query_with_file", "query_plugin", "train_file",
   "train_directory"}

\* the response the handler's verdict rests on
Decisive == IF op = "list" THEN listing ELSE resp

\* a mapping with a status that is a number
HasStatus(r) == r.kind = "dict" /\ "status" \in r.keys /\ r.stype = "int"

IsBare(r) == r.kind \in {"str", "int"}

ReportedFailure == exit = 1 /\ report = "failed"

ReportedSuccess == exit = 0 /\ report = "success"

\* C7 as stated: in add, delete, list and the queries a mapping with a
\* status is reported as a failure iff status >= 400, with the text of
\* 'error' if the key is present, else of 'message' if present, else
\* 'Unknown error'.
C7_StatusAndErrorIfPresent ==
  (op \in StatusOps /\ HasStatus(Decisive))
    => LET r == Decisive IN
       /\ ReportedFailure <=> r.status >= 400
       /\ ReportedSuccess <=> r.status < 400
       /\ r.status >= 400 =>
            msg = IF "error" \in r.keys THEN r.error
                  ELSE IF "message" \in r.keys THEN r.message
                  ELSE "Unknown error"

\* C7 amended: the same, with the text of 'error' only if the key is
\* present and its value is neither empty nor None.
C7_StatusAndErrorIfTruthy ==
  (op \in StatusOps /\ HasStatus(Decisive))
    => LET r == Decisive IN
       /\ ReportedFailure <=> r.status >= 400
       /\ ReportedSuccess <=> r.status < 400
       /\ r.status >= 400 =>
            msg = IF "error" \in r.keys /\ r.error \notin {"", None} THEN r.error
                  ELSE IF "message" \in r.keys THEN r.message
                  ELSE "Unknown error"

C7_Witness ==
  /\ op = "delete"
  /\ HasStatus(resp)
  /\ resp.status = 400
  /\ "error" \in resp.keys /\ resp.error = ""
  /\ "message" \in resp.keys
  /\ ReportedFailure
  /\ msg = resp.message

\* C8: the train handlers count a mapping with a status as failed iff
\* status >= 400, so the mock client's answer for an existing file,
\* {status: 200, response: ...}, is a successful training.
C8_TrainByStatus ==
  /\ (op = "train_file" /\ HasStatus(resp))
       => /\ ReportedFailure <=> resp.status >= 400
          /\ ReportedSuccess <=> resp.status < 400
  /\ (op = "train_file" /\ resp = mock_train_with_file(TRUE)) => ReportedSuccess
  /\ (op = "train_directory" /\ report = "summary"
        /\ \A i \in 1..Len(resps) : HasStatus(resps[i]))
       => failed = Cardinality({i \in 1..Len(resps) : resps[i].status >= 400})

\* C9: a mapping with a success key and no status key makes add, delete
\* and train-file report a failure iff success is falsy, with the text of
\* 'error' or else 'Unknown error'.
C9_LegacySuccessKey ==
  (/\ op \in {"add", "delete", "train_file"}
   /\ resp.kind = "dict"
   /\ "success" \in resp.keys
   /\ "status" \notin resp.keys)
    => /\ ReportedFailure <=> ~resp.success
       /\ ReportedSuccess <=> resp.success
       /\ ~resp.success =>
            msg = IF "error" \in resp.keys THEN resp.error ELSE "Unknown error"

FailedCall(r) ==
  \/ r.kind = "raise"
  \/ r.kind # "dict"
  \/ HasStatus(r) /\ r.status >= 400
  \/ r.kind = "dict" /\ "success" \in r.keys /\ ~r.success

\* C11: directory training over N collected files makes exactly N
\* train_with_file calls, one per file in sorted order, whatever fails or
\* raises; successful + failed = N, failed is the number of calls that
\* returned a failure or raised, and the exit status is 1 iff failed > 0.
C11_OneCallPerFile ==
  (op = "train_directory" /\ report = "summary")
    => /\ Len(calls) = Len(files) + 1
       /\ calls[1].fn = "get_datasets"
       /\ \A i \in 1..Len(files) : calls[i + 1] = TrainCall(result, files[i].file)
       /\ \A i, j \in 1..Len(files) : i < j => files[i].path < files[j].path
       /\ successful + failed = Len(files)
       /\ failed = Cardinality({i \in 1..Len(resps) : FailedCall(resps[i])})
       /\ exit = IF failed > 0 THEN 1 ELSE 0

\* a remote operation that reported a failure (status >= 400 or a false
\* 'success') or raised
OperationFailed(r) ==
  \/ r.kind = "raise"
  \/ HasStatus(r) /\ r.status >= 400
  \/ r.kind = "dict" /\ "success" \in r.keys /\ ~r.success

\* the answers of the remote operations the invocation performed
Performed == {listing, assign, resp} \cup {resps[i] : i \in 1..Len(resps)}

\* C12: an invocation ends with exit status 1 whenever a remote operation
\* it performed reported a failure or raised, the assign_dataset call of
\* a query with --dataset included; it ends with 0 only when all of them
\* succeeded.
C12_ExitOneOnAnyFailure ==
  (op # "start" /\ \E r \in Performed : OperationFailed(r)) => exit = 1

\* the handler called resolve_dataset_name
Resolved == calls # <<>> /\ calls[1].fn = "get_datasets"

\* C13: when resolve_dataset_name returns None in delete, train-file,
\* train-directory or a query handler, the handler ends with the message
\* "Dataset '<name>' not found." and exit status 1, having made no call
\* after get_datasets; the exit is not turned into the 'Error executing'
\* message of the surrounding except clauses.
C13_NotFoundStopsHandler ==
  (op \in ResolvingOps /\ Resolved /\ resolve_dataset_name(listing, name) = NoneName)
    => /\ report = "not_found"
       /\ exit = 1
       /\ result = NoneName
       /\ calls = <<Call("get_datasets", <<>>)>>
       /\ assign = NoResp
       /\ resp = NoResp
       /\ resps = <<>>
       /\ successful = 0 /\ failed = 0

C13_Witness ==
  /\ op = "delete"
  /\ name = <<"1", "_", "d">>
  /\ listing = BareList(<<F1d>>)
  /\ report = "not_found"
  /\ exit = 1
  /\ calls = <<Call("get_datasets", <<>>)>>

QueryOps == {"query", "query_with_file", "query_plugin"}

\* C14: when add_dataset, delete_dataset, train_with_file of train file,
\* assign_dataset or a query call raises, a handler of the command prints
\* its 'Error ...' message with the exception's text and the process exits
\* with status 1; the query call is not made after assign_dataset raised.
C14_RaiseReachesHandler ==
  /\ (op \in {"add", "delete", "train_file"} \cup QueryOps /\ resp.kind = "raise")
       => exit = 1 /\ report = "error" /\ msg = resp.text
  /\ (op \in QueryOps /\ assign.kind = "raise")
       => /\ exit = 1 /\ report = "error" /\ msg = assign.text
          /\ resp = NoResp
          /\ calls[Len(calls)].fn = "assign_dataset"

C14_Witness ==
  /\ op = "query_plugin"
  /\ assign = Raise("timeout")
  /\ result = F1d
  /\ calls = <<Call("get_datasets", <<>>), Call("assign_dataset", F1d)>>
  /\ exit = 1
  /\ report = "error"
  /\ msg = "timeout"

\* C15: each call of resolve_dataset_name makes one get_datasets call and
\* no other client call, and against an unchanged listing a name that was
\* returned resolves to itself: resolve(c) = r, not None, implies
\* resolve(r) = r.
C15_OneListingCallIdempotent ==
  /\ [](op = "resolve" => calls = <<Call("get_datasets", <<>>)>>)
  /\ [](op = "resolve_again"
          => calls = <<Call("get_datasets", <<>>), Call("get_datasets", <<>>)>>)
  /\ [][(op = "resolve" /\ op' = "resolve_again") => result' = result]_vars

C15_Witness ==
  /\ op = "resolve_again"
  /\ name = <<"d">>
  /\ listing = BareList(<<F1d \o <<"x">>, F1d>>)
  /\ result = F1d
  /\ Len(calls) = 2

\* the text a failure is reported with when the mapping has neither a
\* usable 'error' nor a 'message'
NoErrorText(r) ==
  ~("error" \in r.keys /\ Truthy(r.error)) /\ "message" \notin r.keys

\* C16: interpreting a mapping never raises: a mapping that lacks any of
\* 'status', 'success', 'error', 'message', 'response', or whose 'status'
\* is None or a string, is reported as a success or as a failure (with
\* 'Unknown error' when it carries no text), never as an exception of the
\* handler that inspects it.
C16_MappingNeverRaises ==
  /\ (op \in StatusOps /\ Decisive.kind = "dict")
       => /\ ReportedSuccess \/ ReportedFailure
          /\ (ReportedFailure /\ NoErrorText(Decisive)) => msg = "Unknown error"
  /\ (op = "tokens" /\ \A i \in 1..Len(resps) : resps[i].kind = "dict")
       => /\ ReportedSuccess \/ ReportedFailure
          /\ (ReportedFailure /\ \A i \in 1..Len(resps) : NoErrorText(resps[i]))
               => msg = "Unknown error"

\* C17 as stated: a query handler whose --dataset resolves to r makes
\* exactly the calls get_datasets, assign_dataset(r), and its query call,
\* in this order; without --dataset it calls neither get_datasets nor
\* assign_dataset.
C17_ResolveAssignQuery ==
  /\ (op \in QueryOps /\ Resolved /\ resolve_dataset_name(listing, name) # NoneName)
       => calls = <<Call("get_datasets", <<>>),
                    Call("assign_dataset", resolve_dataset_name(listing, name)),
                    Call(op, <<>>)>>
  /\ (op \in QueryOps /\ name = <<>>)
       => \A i \in 1..Len(calls) : calls[i].fn \notin {"get_datasets", "assign_dataset"}

\* C17 amended: the same, except that the query call is not made when
\* assign_dataset raised: the calls are then get_datasets and
\* assign_dataset(r) only.
C17_ResolveAssignThenQuery ==
  /\ (op \in QueryOps /\ Resolved /\ resolve_dataset_name(listing, name) # NoneName)
       => LET r == resolve_dataset_name(listing, name)
              c2 == <<Call("get_datasets", <<>>), Call("assign_dataset", r)>>
          IN calls = IF assign.kind = "raise" THEN c2 ELSE c2 \o <<Call(op, <<>>)>>
  /\ (op \in QueryOps /\ name = <<>>)
       => \A i \in 1..Len(calls) : calls[i].fn \notin {"get_datasets", "assign_dataset"}

C17_Witness ==
  /\ op = "query_with_file"
  /\ name = <<"d">>
  /\ listing = Dict({"status", "response"}, 200, FALSE, "", "", <<F1d>>)
  /\ assign.kind = "dict"
  /\ calls = <<Call("get_datasets", <<>>), Call("assign_dataset", F1d),
               Call("query_with_file", <<>>)>>
  /\ exit = 0

(***************************************************************************)
(* Properties of the mock client (checked under SpecMock).                 *)
(***************************************************************************)
\* s without every element equal to x, the others in their order
Without(s, x) == Filter(s, Elems(s) \ {x}, 1)

NoDuplicates(s) == \A i, j \in 1..Len(s) : s[i] = s[j] => i = j

C19_MockListInvariants ==
  /\ [](NoDuplicates(datasets))
  /\ [][(op' \in {"client_add", "add"} /\ resp' # NoResp /\ In(MockFull(name'), datasets))
          => HasStatus(resp') /\ resp'.status = 400 /\ datasets' = datasets]_vars
  /\ [][(op' = "client_delete" /\ ~In(name', datasets))
          => HasStatus(resp') /\ resp'.status = 404 /\ datasets' = datasets]_vars
  /\ [](op = "get_datasets" => listing.payload = datasets /\ ~shared)
  /\ [][op' = "mutate" => datasets' = datasets]_vars

C19_Witness ==
  /\ op = "client_add"
  /\ name = docs
  /\ HasStatus(resp) /\ resp.status = 400
  /\ datasets = InitialDatasets

(***************************************************************************)
(* Properties of what the handlers pass on (checked under Spec).           *)
(***************************************************************************)
\* the listing a get_datasets answer carries
ListOf(r) ==
  IF r.kind = "list" THEN r.payload
  ELSE IF r.kind = "dict" THEN GetResponseList(r)
  ELSE <<>>

\* C20: when get_datasets returned without raising, the resolved name is
\* None or an element of the returned listing, so delete_dataset,
\* train_with_file and assign_dataset get a name that is not in the
\* listing only when the listing call raised.
C20_ResolvedNameIsListed ==
  (op \in ResolvingOps /\ Resolved /\ listing.kind # "raise")
    => /\ result = NoneName \/ result \in Elems(ListOf(listing))
       /\ \A i \in 1..Len(calls) :
            calls[i].fn \in {"delete_dataset", "train_with_file", "assign_dataset"}
              => calls[i].arg \in Elems(ListOf(listing))

====
